---- MODULE Spec2Model ----
(***************************************************************************)
(* The research agent graph of backend/src/agent/graph.py (with the MCP    *)
(* router) and of tmp2/backend/src/agent/graph.py (the graph without the   *)
(* router), run by the LangGraph executor: a run is a sequence of          *)
(* supersteps; each node reads a snapshot of the channels, returns a       *)
(* partial update, and the update is merged channel by channel (append for *)
(* the Annotated[list, operator.add] channels, overwrite for the others,   *)
(* keys that are no channel are dropped).                                  *)
(***************************************************************************)
EXTENDS Integers, Sequences, FiniteSets, TLC

(* ---------------------------------------------------------------- bounds *)

\* longest query list the query-writer model returns
MaxQueries == 2
\* most calls of search_images under way at the same time
MaxCalls == 2
\* the time the clock is followed for, in tenths of a second
MaxClock == 26
\* most calls of route_to_tool on one state
MaxRouteCalls == 2
\* most search results one web_research branch gets back (max_results=5 in the code)
MaxResults == 2
\* largest configured max_research_loops
MaxLoops == 2
\* most images one web_research branch gets back (max_images=6 in the code)
MaxImages == 1
\* supersteps a run may take before the executor raises GraphRecursionError
RecursionLimit == 8

(* ------------------------------------------------------------- channels *)

\* state.py: OverallState
OverallState ==
    {"messages", "available_mcp_servers", "active_mcp_configurations",
     "current_mcp_tool_request", "target_mcp_server_qualified_name",
     "mcp_tool_response", "search_query", "web_research_result",
     "sources_gathered", "images", "initial_search_query_count",
     "max_research_loops", "research_loop_count", "reasoning_model"}

\* state.py: ReflectionState (input schema of evaluate_research)
ReflectionState ==
    {"is_sufficient", "knowledge_gap", "follow_up_queries",
     "research_loop_count", "number_of_ran_queries"}

\* state.py: QueryGenerationState (input schema of continue_to_web_research)
QueryGenerationState == {"query_list"}

\* state.py: WebSearchState (input schema of web_research)
WebSearchState == {"search_query", "id"}

\* the channels of the compiled graph: the keys of the graph's state schema
\* and of the input schemas of its nodes and typed edge functions
Channels ==
    OverallState \cup ReflectionState \cup QueryGenerationState \cup WebSearchState

\* the channels declared Annotated[list, operator.add] (messages: add_messages)
AppendChannels ==
    {"messages", "search_query", "web_research_result", "sources_gathered",
     "images", "follow_up_queries"}

\* dict.get(key, default)
Get(s, k, d) == IF k \in DOMAIN s THEN s[k] ELSE d

\* a snapshot restricted to the keys of a schema
Restrict(s, keys) == [k \in (DOMAIN s) \cap keys |-> s[k]]

\* add_messages: a message that is already in the list replaces itself,
\* a new one is appended
add_messages(left, right) ==
    left \o SelectSeq(right, LAMBDA m : \A i \in DOMAIN left : left[i] # m)

\* the merge putting the new entries of an append channel in front of the old
ApplyWritesPrepends(s, u) ==
    [k \in (DOMAIN s) \cup ((DOMAIN u) \cap Channels) |->
        IF k \in DOMAIN u
        THEN IF k \in AppendChannels THEN u[k] \o Get(s, k, <<>>) ELSE u[k]
        ELSE s[k]]

\* the merge appending to query_list as well
ApplyWritesAppendsLists(s, u) ==
    [k \in (DOMAIN s) \cup ((DOMAIN u) \cap Channels) |->
        IF k \in DOMAIN u
        THEN IF k = "messages" THEN add_messages(Get(s, k, <<>>), u[k])
             ELSE IF k \in AppendChannels \cup {"query_list"}
                  THEN Get(s, k, <<>>) \o u[k]
             ELSE u[k]
        ELSE s[k]]

\* the merge of one partial update into the channels
ApplyWrites(s, u) ==
    [k \in (DOMAIN s) \cup ((DOMAIN u) \cap Channels) |->
        IF k \in DOMAIN u
        THEN IF k = "messages" THEN add_messages(Get(s, k, <<>>), u[k])
             ELSE IF k \in AppendChannels THEN Get(s, k, <<>>) \o u[k]
             ELSE u[k]
        ELSE s[k]]

(* ---------------------------------------------------------------- state *)

VARIABLES
    graph,              \* "mcp": backend/src/agent/graph.py, "base": tmp2/backend/src/agent/graph.py
    env_api_key,        \* GEMINI_API_KEY is set in the environment
    env_smithery_key,   \* SMITHERY_API_KEY is set in the environment
    max_research_loops, \* configurable.max_research_loops
    input,              \* the initial state the caller passed to the run
    state,              \* the merged channels (a key is absent until written)
    prev,               \* the channels before the writes of the last superstep
    pc,                 \* the node the next superstep runs, "END" or "error"
    step,               \* supersteps completed
    branches,           \* the web_research tasks of the current fan-out, by Send position
    completed,          \* positions of the finished web_research tasks, in completion order
    history,            \* the nodes executed so far, in order
    update,             \* the partial update the last node returned
    edge_result,        \* what the last conditional edge function returned
    llm_called,         \* the last node invoked the text-completion capability
    http_called,        \* the last node made the HTTP call to the tool proxy
    clock,              \* time.time(), in tenths of a second
    last_image_call,    \* web_search.py: the module global _last_image_call
    image_calls,        \* the calls of search_images under way, one record each
    decisions,          \* what route_to_tool returned, call after call
    error               \* the exception that ended the run, "" when none

vars ==
    <<decisions, graph, env_api_key, env_smithery_key, max_research_loops, input, state, prev,
      pc, step, branches, completed, history, update, edge_result, llm_called,
      http_called, clock, last_image_call, image_calls, error>>

Last(seq) == seq[Len(seq)]

Count(seq, x) == Cardinality({i \in DOMAIN seq : seq[i] = x})

\* Python truthiness of an optional string
Truthy(str) == str # ""

(* ---------------------------------------------------------------- nodes *)

\* the queries the query-writer model can return: the first n of these
QueryText == <<"q1", "q2", "q3", "q4">>

\* structured_llm.invoke(formatted_prompt).query
QueryLists == {SubSeq(QueryText, 1, n) : n \in 0..MaxQueries}

\* reflection_result.model_dump() of the reflection model
ReflectionAnswers ==
    {[is_sufficient |-> TRUE, knowledge_gap |-> "", follow_up_queries |-> <<>>],
     [is_sufficient |-> FALSE, knowledge_gap |-> "gap", follow_up_queries |-> <<"f1">>]}

\* get_llm: raises ValueError when the provider key is missing
get_llm_raises == ~env_api_key

\* route_to_tool sending to the tool only when the proxy key is configured
route_to_tool_if_key(s) ==
    IF /\ Truthy(Get(s, "target_mcp_server_qualified_name", ""))
       /\ "current_mcp_tool_request" \in DOMAIN s
       /\ env_smithery_key
    THEN [next_node |-> "execute_mcp_tool"]
    ELSE [next_node |-> "generate_query"]

\* route_to_tool deciding on either key alone
route_to_tool_either(s) ==
    IF Truthy(Get(s, "target_mcp_server_qualified_name", ""))
       \/ "current_mcp_tool_request" \in DOMAIN s
    THEN [next_node |-> "execute_mcp_tool"]
    ELSE [next_node |-> "generate_query"]

\* route_to_tool: the routing decision
route_to_tool(s) ==
    IF Truthy(Get(s, "target_mcp_server_qualified_name", ""))
       /\ "current_mcp_tool_request" \in DOMAIN s
    THEN [next_node |-> "execute_mcp_tool"]
    ELSE [next_node |-> "generate_query"]

\* the conditional edge after route_to_tool: lambda x: x.get("next_node")
router_edge(s) == Get(s, "next_node", "None")

\* the path map of the conditional edge after route_to_tool
router_path_map == {"execute_mcp_tool", "generate_query"}

\* generate_query: the update it returns for the model's answer
generate_query(s, result) == [query_list |-> result]

\* continue_to_web_research numbering the branches from 1
continue_to_web_research_from_one(s) ==
    [i \in 1..Len(s.query_list) |->
        [node |-> "web_research",
         arg |-> [search_query |-> s.query_list[i], id |-> i]]]

\* continue_to_web_research: one Send per item of query_list
continue_to_web_research(s) ==
    [i \in 1..Len(s.query_list) |->
        [node |-> "web_research",
         arg |-> [search_query |-> s.query_list[i], id |-> i - 1]]]

\* what the search backend does for one query: -1 is a failure (missing
\* library, network error, malformed result), n >= 0 is n usable results
SearchOutcomes == -1..MaxResults

\* simple_web_search keeping the failure instead of an empty list
simple_web_search_leaks(outcome) == outcome

\* simple_web_search: the number of results it returns, none on any exception
simple_web_search(outcome) == IF outcome < 0 THEN 0 ELSE outcome

\* search_images: the number of images it returns, none on any exception
search_images(outcome) == IF outcome < 0 THEN 0 ELSE outcome

\* the dicts perform_web_search_with_llm returns for the query search_query
NoResults(search_query) ==
    [sources_gathered |-> <<>>, search_query |-> search_query,
     web_research_result |-> [kind |-> "no_results", query |-> search_query],
     images |-> <<>>]
Processed(search_query, k, m, kind) ==
    [sources_gathered |-> [j \in 1..k |-> [query |-> search_query, short_url |-> j]],
     search_query |-> search_query,
     web_research_result |-> [kind |-> kind, query |-> search_query],
     images |-> [j \in 1..m |-> [query |-> search_query, n |-> j]]]

\* how a call of perform_web_search_with_llm ends: the dict it returned or
\* the exception it raised, and whether llm.invoke was called
SearchReturned(result, invoked) ==
    [raised |-> "", llm_invoked |-> invoked, result |-> result]
SearchRaised(exc) == [raised |-> exc, llm_invoked |-> TRUE, result |-> <<>>]

\* perform_web_search_with_llm giving up on the images of an empty search
perform_web_search_with_llm_text_only(search_query, k, m, llm_ok) ==
    IF k = 0
    THEN SearchReturned(NoResults(search_query), FALSE)
    ELSE SearchReturned(Processed(search_query, k, m,
                                  IF llm_ok THEN "summary" ELSE "formatted"), TRUE)

\* perform_web_search_with_llm giving up on the results of a search without images
perform_web_search_with_llm_needs_images(search_query, k, m, llm_ok) ==
    IF m = 0 /\ graph = "mcp"
    THEN SearchReturned(NoResults(search_query), FALSE)
    ELSE SearchReturned(Processed(search_query, k, m,
                                  IF llm_ok THEN "summary" ELSE "formatted"), TRUE)

\* perform_web_search_with_llm asking the model about an empty search too
perform_web_search_with_llm_always_asks(search_query, k, m, llm_ok) ==
    SearchReturned(IF k = 0 /\ m = 0 THEN NoResults(search_query)
                   ELSE Processed(search_query, k, m,
                                  IF llm_ok THEN "summary" ELSE "formatted"),
                   TRUE)

\* perform_web_search_with_llm for a search that returned k results and m
\* images, llm.invoke returning (llm_ok) or raising. The router's graph
\* builds sources_gathered before the try block; the other graph builds it
\* inside, after llm.invoke, and names it again in the except block.
perform_web_search_with_llm(search_query, k, m, llm_ok) ==
    LET none == IF graph = "mcp" THEN k = 0 /\ m = 0 ELSE k = 0
    IN  IF none
        THEN SearchReturned(NoResults(search_query), FALSE)
        ELSE IF llm_ok
        THEN SearchReturned(Processed(search_query, k, m, "summary"), TRUE)
        ELSE IF graph = "mcp"
        THEN SearchReturned(Processed(search_query, k, m, "formatted"), TRUE)
        ELSE SearchRaised("UnboundLocalError")

\* the update web_research makes of the dict r of perform_web_search_with_llm
BranchUpdate(r) ==
    LET base == [sources_gathered |-> r.sources_gathered,
                 search_query |-> <<r.search_query>>,
                 web_research_result |-> <<r.web_research_result>>]
    IN  IF graph = "mcp" THEN base @@ [images |-> r.images] ELSE base

\* web_research returning no web_research_result entry for an empty search
web_research_drops_empty(arg, k, m, llm_ok) ==
    LET r == perform_web_search_with_llm(arg.search_query, k, m, llm_ok)
    IN  IF r.raised # "" THEN r
        ELSE [r EXCEPT !.result =
                [sources_gathered |-> r.result.sources_gathered,
                 search_query |-> <<r.result.search_query>>,
                 web_research_result |->
                    IF r.result.sources_gathered = <<>> THEN <<>>
                    ELSE <<r.result.web_research_result>>]]

\* web_research passing a verdict on the research along with its results
web_research_judges(arg, k, m, llm_ok) ==
    LET r == perform_web_search_with_llm(arg.search_query, k, m, llm_ok)
    IN  IF r.raised # "" THEN r
        ELSE [r EXCEPT !.result = BranchUpdate(r.result)
                                  @@ [is_sufficient |-> k > 0]]

\* web_research: how one branch ends, result being the update it returns
web_research(arg, k, m, llm_ok) ==
    LET r == perform_web_search_with_llm(arg.search_query, k, m, llm_ok)
    IN  IF r.raised # "" THEN r
        ELSE [r EXCEPT !.result = BranchUpdate(r.result)]

\* reflection: the count it computes in its local copy of the state
LoopCount(s) == Get(s, "research_loop_count", 0) + 1

\* the loop bound test with > for >=
BoundReachedStrict(s) == LoopCount(s) > max_research_loops

\* reflection: the loop bound test
BoundReached(s) == LoopCount(s) >= max_research_loops

\* reflection: the update it returns, answer being the reflection model's
reflection(s, answer) ==
    IF BoundReached(s)
    THEN [is_sufficient |-> TRUE, follow_up_queries |-> <<>>]
    ELSE answer

\* evaluate_research leaving query_list as generate_query set it
evaluate_research_keeps_queries(s) == [is_sufficient |-> s.is_sufficient]

\* evaluate_research
evaluate_research(s) ==
    IF s.is_sufficient
    THEN [is_sufficient |-> TRUE]
    ELSE [is_sufficient |-> FALSE, query_list |-> s.follow_up_queries]

\* the conditional edge after evaluate_research looping back to the tool
evaluate_edge_to_tool(s) ==
    IF Get(s, "is_sufficient", FALSE) THEN "finalize_answer" ELSE "execute_mcp_tool"

\* the conditional edge after evaluate_research
evaluate_edge(s) ==
    IF Get(s, "is_sufficient", FALSE) THEN "finalize_answer" ELSE "generate_query"

\* finalize_answer
finalize_answer(s) == [messages |-> <<"ai">>]

(* ------------------------------------------------------ execute_mcp_tool *)

\* a Python dict and a value that is no dict (a string, a number, a list)
Dict(items) == [type |-> "dict", items |-> items]
NotADict == [type |-> "str", items |-> <<>>]
NoneValue == [type |-> "NoneType", items |-> <<>>]

\* what the HTTP call to the tool proxy can come back with
HttpOutcomes ==
    {"200_json_object", "200_json_array", "200_not_json",
     "4xx_json_body", "4xx_text_body", "connection_error"}

\* McpToolResponse(status="error", data={"error": message})
ErrorResponse(message) == [status |-> "error", data |-> [error |-> message]]

\* the try block of execute_mcp_tool: the McpToolResponse it ends with
mcp_response(outcome) ==
    CASE outcome = "200_json_object"
           -> [status |-> "success", data |-> [body |-> "object"]]
      [] outcome = "200_json_array"
           -> ErrorResponse("An unexpected error occurred: validation error")
      [] outcome = "200_not_json"
           -> ErrorResponse("Request failed: JSONDecodeError")
      [] outcome = "4xx_json_body"
           -> [status |-> "error",
               data |-> [error |-> "HTTPError", response_body |-> "json"]]
      [] outcome = "4xx_text_body"
           -> [status |-> "error",
               data |-> [error |-> "HTTPError", response_body |-> "text"]]
      [] OTHER
           -> ErrorResponse("Request failed: ConnectionError")

\* the string execute_mcp_tool appends to web_research_result
mcp_output_string(response) ==
    IF response.status = "success"
    THEN [kind |-> "mcp_output", data |-> response.data]
    ELSE [kind |-> "mcp_error", data |-> response.data]

\* what a call of the node ends with: the dict it returned, or the exception
Returned(u, http) == [raised |-> "", http |-> http, update |-> u]
Raised(exc) == [raised |-> exc, http |-> FALSE, update |-> <<>>]

\* create_smithery_mcp_url: the URL, or the exception of dict.update for
\* config_params that are no dict
create_smithery_mcp_url(server_qualified_name, config_params, api_key) ==
    IF config_params.type = "dict"
    THEN [raised |-> "",
          url |-> [server |-> server_qualified_name,
                   query |-> config_params.items
                             @@ (IF api_key = "None" THEN <<>>
                                 ELSE [api_key |-> api_key])]]
    ELSE [raised |-> "ValueError", url |-> <<>>]

\* the test for a missing configuration taking an empty one for missing
ConfigMissingIfFalsy(server_config) ==
    server_config = NoneValue \/ server_config = Dict(<<>>)

\* server_config is None
ConfigMissing(server_config) == server_config = NoneValue

\* the error for a missing configuration worded as the one for a missing request
ConfigErrorAsRequestError(server_qname) ==
    ErrorResponse("Missing tool request or target server in state.")

\* the error for a missing configuration
ConfigError(server_qname) ==
    [status |-> "error",
     data |-> [error |-> "Active configuration for {server_qname} not found.",
               server_qname |-> server_qname]]

\* execute_mcp_tool on the snapshot s, the HTTP call coming back with outcome
execute_mcp_tool(s, outcome) ==
    LET tool_request == Get(s, "current_mcp_tool_request", NoneValue)
        server_qname == Get(s, "target_mcp_server_qualified_name", "")
        active_mcp_configs == Get(s, "active_mcp_configurations", Dict(<<>>))
        early(response) == Returned([mcp_tool_response |-> response] @@ s, FALSE)
    IN  IF ~env_smithery_key
        THEN early(ErrorResponse("SMITHERY_API_KEY not configured."))
        ELSE IF tool_request = NoneValue \/ server_qname = ""
        THEN early(ErrorResponse("Missing tool request or target server in state."))
        ELSE LET server_config == Get(active_mcp_configs.items, server_qname, NoneValue)
                 target_url == create_smithery_mcp_url(server_qname, server_config, "None")
                 response == mcp_response(outcome)
                 current_results ==
                     Append(s.web_research_result, mcp_output_string(response))
             IN  IF ConfigMissing(server_config)
                 THEN early(ConfigError(server_qname))
                 ELSE IF target_url.raised # ""
                 THEN Raised(target_url.raised)
                 ELSE IF tool_request.class # "McpToolRequest"
                 THEN Raised("AttributeError")
                 ELSE Returned([mcp_tool_response |-> response,
                                web_research_result |-> current_results] @@ s,
                               TRUE)

(* ------------------------------------------------------------- executor *)

\* the channels a new run starts with: the caller's input, and the empty
\* list in every append channel
InitialChannels(inp) ==
    inp @@ [k \in AppendChannels \ {"follow_up_queries"} |-> <<>>]

\* values a caller passes as research_loop_count (-1: the key is left out)
InitialCounts == {-1, 1}

\* the tool requests a caller passes: none, the McpToolRequest object the
\* state schema names, or the plain dict a JSON input holds
ToolRequests == {"None", "McpToolRequest", "dict"}

\* the target servers a caller passes
TargetServers == {"None", "", "srv"}

\* the optional keys of the caller's input
OptionalInput(c, req, target) ==
    [k \in ((IF c >= 0 THEN {"research_loop_count"} ELSE {})
            \cup (IF req # "None" THEN {"current_mcp_tool_request"} ELSE {})
            \cup (IF target # "None" THEN {"target_mcp_server_qualified_name"} ELSE {})) |->
        CASE k = "research_loop_count" -> c
          [] k = "current_mcp_tool_request"
               -> [class |-> req, tool_name |-> "tool", payload |-> "args"]
          [] OTHER -> target]

Init ==
    /\ graph \in {"mcp", "base"}
    /\ env_api_key \in BOOLEAN
    /\ env_smithery_key \in (IF graph = "mcp" THEN BOOLEAN ELSE {FALSE})
    /\ max_research_loops \in 1..MaxLoops
    /\ \E c \in InitialCounts, req \in ToolRequests, target \in TargetServers :
          /\ graph = "base" => req = "None" /\ target = "None"
          /\ input = [messages |-> <<"human">>] @@ OptionalInput(c, req, target)
    /\ state = InitialChannels(input)
    /\ prev = state
    /\ pc = IF graph = "mcp" THEN "route_to_tool" ELSE "generate_query"
    /\ step = 0
    /\ branches = <<>>
    /\ completed = <<>>
    /\ history = <<>>
    /\ update = <<>>
    /\ edge_result = "None"
    /\ llm_called = FALSE
    /\ http_called = FALSE
    /\ clock = 0
    /\ last_image_call = 0
    /\ image_calls = <<>>
    /\ decisions = <<>>
    /\ error = ""

\* one superstep that runs the single node n, which returned u, and goes on to next
Superstep(n, u, next, called) ==
    /\ prev' = state
    /\ state' = ApplyWrites(state, u)
    /\ update' = u
    /\ history' = Append(history, n)
    /\ step' = step + 1
    /\ pc' = next
    /\ llm_called' = called
    /\ http_called' = FALSE

\* a node raised: the run ends with the exception
Raise(n, exc) ==
    /\ pc' = "error"
    /\ error' = exc
    /\ history' = Append(history, n)
    /\ step' = step + 1
    /\ llm_called' = FALSE
    /\ http_called' = FALSE
    /\ UNCHANGED <<state, prev, update, edge_result, branches, completed>>

\* START -> route_to_tool -> lambda x: x.get("next_node")
RouteToTool ==
    /\ pc = "route_to_tool"
    /\ step < RecursionLimit
    /\ LET u == route_to_tool(state)
           r == router_edge(Restrict(ApplyWrites(state, u), OverallState))
       IN  /\ edge_result' = r
           /\ Superstep("route_to_tool", u,
                        IF r \in router_path_map THEN r ELSE "error", FALSE)
           /\ error' = IF r \in router_path_map THEN "" ELSE "KeyError"
    /\ UNCHANGED <<clock, last_image_call, image_calls, decisions, graph, env_api_key, env_smithery_key, max_research_loops, input, branches, completed>>

\* the web_research tasks the Sends of continue_to_web_research create
Tasks(sends) ==
    [i \in 1..Len(sends) |->
        [arg |-> sends[i].arg, done |-> FALSE, search_failed |-> FALSE,
         results_found |-> 0, images_failed |-> FALSE, images_found |-> 0, llm_invoked |-> FALSE,
         llm_failed |-> FALSE, update |-> <<>>]]

\* generate_query -> continue_to_web_research
GenerateQuery ==
    /\ pc = "generate_query"
    /\ step < RecursionLimit
    /\ IF get_llm_raises
       THEN Raise("generate_query", "ValueError")
       ELSE \E result \in QueryLists :
               LET u == generate_query(state, result)
                   sends == continue_to_web_research(
                                Restrict(ApplyWrites(state, u), QueryGenerationState))
               IN  /\ Superstep("generate_query", u,
                                IF sends = <<>> THEN "END" ELSE "web_research", TRUE)
                   /\ branches' = Tasks(sends)
                   /\ completed' = <<>>
                   /\ UNCHANGED <<edge_result, error>>
    /\ UNCHANGED <<clock, last_image_call, image_calls, decisions, graph, env_api_key, env_smithery_key, max_research_loops, input>>

\* what the image search does for one query: -1 is a failure, n >= 0 is n
\* images; the graph without the router searches no images
ImageCounts == IF graph = "mcp" THEN -1..MaxImages ELSE {0}

\* one web_research task runs to its end; its update waits for the join. A
\* task that raises ends the run.
WebResearch(i) ==
    /\ pc = "web_research"
    /\ step < RecursionLimit
    /\ i \in DOMAIN branches
    /\ ~branches[i].done
    /\ \E outcome \in SearchOutcomes, img \in ImageCounts, llm_ok \in BOOLEAN :
          LET r == web_research(branches[i].arg, simple_web_search(outcome),
                                search_images(img), llm_ok)
          IN  IF r.raised # ""
              THEN /\ pc' = "error"
                   /\ error' = r.raised
                   /\ UNCHANGED <<branches, completed>>
              ELSE /\ branches' = [branches EXCEPT
                          ![i] = [arg |-> @.arg, done |-> TRUE,
                                  search_failed |-> outcome < 0,
                                  results_found |-> simple_web_search(outcome),
                                  images_failed |-> img < 0,
                                  images_found |-> search_images(img),
                                  llm_invoked |-> r.llm_invoked,
                                  llm_failed |-> r.llm_invoked /\ ~llm_ok,
                                  update |-> r.result]]
                   /\ completed' = Append(completed, i)
                   /\ UNCHANGED <<pc, error>>
    /\ history' = Append(history, "web_research")
    /\ UNCHANGED <<clock, last_image_call, image_calls, decisions, graph, env_api_key, env_smithery_key, max_research_loops, input, state, prev,
                   step, update, edge_result, llm_called, http_called>>

\* a join that does not wait for every task
JoinReadyAny(b) == \E i \in DOMAIN b : b[i].done

\* the superstep of the web_research tasks is over when this holds
JoinReady(b) == \A i \in DOMAIN b : b[i].done

\* writes applied in completion order
JoinOrderByCompletion(b, done_order) == done_order

\* the order in which the writes of the finished tasks are applied
JoinOrder(b, done_order) == [i \in 1..Len(b) |-> i]

RECURSIVE ApplyAll(_, _, _)
\* the merge of the updates us[order[1]], us[order[2]], ... into the channels
ApplyAll(s, b, order) ==
    IF order = <<>> THEN s
    ELSE ApplyAll(ApplyWrites(s, b[Head(order)].update), b, Tail(order))

\* web_research -> reflection: the end of the fan-out's superstep
Join ==
    /\ pc = "web_research"
    /\ step < RecursionLimit
    /\ JoinReady(branches)
    /\ prev' = state
    /\ state' = ApplyAll(state, branches, JoinOrder(branches, completed))
    /\ completed' = <<>>
    /\ step' = step + 1
    /\ pc' = "reflection"
    /\ UNCHANGED <<clock, last_image_call, image_calls, decisions, graph, env_api_key, env_smithery_key, max_research_loops, input, branches, history,
                   update, edge_result, llm_called, http_called, error>>

\* reflection -> evaluate_research
Reflection ==
    /\ pc = "reflection"
    /\ step < RecursionLimit
    /\ IF ~BoundReached(state) /\ get_llm_raises
       THEN Raise("reflection", "ValueError")
       ELSE \E answer \in ReflectionAnswers :
               /\ Superstep("reflection", reflection(state, answer),
                            "evaluate_research", ~BoundReached(state))
               /\ UNCHANGED <<edge_result, error, branches, completed>>
    /\ UNCHANGED <<clock, last_image_call, image_calls, decisions, graph, env_api_key, env_smithery_key, max_research_loops, input>>

\* evaluate_research -> finalize_answer or generate_query
EvaluateResearch ==
    /\ pc = "evaluate_research"
    /\ step < RecursionLimit
    /\ LET u == evaluate_research(Restrict(state, ReflectionState))
           r == evaluate_edge(Restrict(ApplyWrites(state, u), ReflectionState))
       IN  /\ edge_result' = r
           /\ Superstep("evaluate_research", u, r, FALSE)
    /\ UNCHANGED <<clock, last_image_call, image_calls, decisions, graph, env_api_key, env_smithery_key, max_research_loops, input, branches,
                   completed, error>>

\* finalize_answer -> END
FinalizeAnswer ==
    /\ pc = "finalize_answer"
    /\ step < RecursionLimit
    /\ IF get_llm_raises
       THEN Raise("finalize_answer", "ValueError")
       ELSE /\ Superstep("finalize_answer", finalize_answer(state), "END", TRUE)
            /\ UNCHANGED <<edge_result, error, branches, completed>>
    /\ UNCHANGED <<clock, last_image_call, image_calls, decisions, graph, env_api_key, env_smithery_key, max_research_loops, input>>

\* the executor stops a run that needs more supersteps than the recursion limit
RecursionError ==
    /\ pc \notin {"END", "error"}
    /\ step >= RecursionLimit
    /\ pc' = "error"
    /\ error' = "GraphRecursionError"
    /\ UNCHANGED <<clock, last_image_call, image_calls, decisions, graph, env_api_key, env_smithery_key, max_research_loops, input, state, prev, step,
                   branches, completed, history, update, edge_result, llm_called,
                   http_called>>

\* the active_mcp_configurations a caller passes
ActiveConfigurations ==
    {Dict(<<>>), Dict([srv |-> Dict(<<>>)]),
     Dict([srv |-> Dict([k |-> "v"])]), Dict([srv |-> NotADict])}

\* the web_research_result a caller passes
PriorResults == {<<>>, <<[kind |-> "summary", query |-> "q0"]>>}

\* a run that starts at execute_mcp_tool, as the edges from route_to_tool
\* to it are declared
InitTool ==
    /\ graph = "mcp"
    /\ env_api_key = TRUE
    /\ env_smithery_key \in BOOLEAN
    /\ max_research_loops = 1
    /\ \E req \in ToolRequests, target \in TargetServers, prior \in PriorResults :
          \/ input = [messages |-> <<"human">>, web_research_result |-> prior]
                      @@ OptionalInput(-1, req, target)
          \/ \E cfg \in ActiveConfigurations :
                input = [messages |-> <<"human">>, web_research_result |-> prior,
                         active_mcp_configurations |-> cfg]
                        @@ OptionalInput(-1, req, target)
    /\ state = InitialChannels(input)
    /\ prev = state
    /\ pc = "execute_mcp_tool"
    /\ step = 0
    /\ branches = <<>>
    /\ completed = <<>>
    /\ history = <<>>
    /\ update = <<>>
    /\ edge_result = "None"
    /\ llm_called = FALSE
    /\ http_called = FALSE
    /\ clock = 0
    /\ last_image_call = 0
    /\ image_calls = <<>>
    /\ decisions = <<>>
    /\ error = ""

\* execute_mcp_tool -> reflection. The list the node appends to is the one
\* of its snapshot; whether that is the channel's own list object or a copy
\* is the executor's choice.
ExecuteMcpTool ==
    /\ pc = "execute_mcp_tool"
    /\ step < RecursionLimit
    /\ \E outcome \in HttpOutcomes, aliased \in BOOLEAN :
          LET r == execute_mcp_tool(Restrict(state, OverallState), outcome)
              mutated == IF aliased /\ r.http
                         THEN [state EXCEPT
                                  !.web_research_result = r.update.web_research_result]
                         ELSE state
          IN  IF r.raised # ""
              THEN Raise("execute_mcp_tool", r.raised)
              ELSE /\ prev' = state
                   /\ state' = ApplyWrites(mutated, r.update)
                   /\ update' = r.update
                   /\ history' = Append(history, "execute_mcp_tool")
                   /\ step' = step + 1
                   /\ pc' = "reflection"
                   /\ llm_called' = FALSE
                   /\ http_called' = r.http
                   /\ error' = ""
                   /\ UNCHANGED <<edge_result, branches, completed>>
    /\ UNCHANGED <<clock, last_image_call, image_calls, decisions, graph, env_api_key, env_smithery_key, max_research_loops, input>>

NextTool == ExecuteMcpTool

SpecTool == InitTool /\ [][NextTool]_vars

Next ==
    \/ RouteToTool
    \/ GenerateQuery
    \/ \E i \in DOMAIN branches : WebResearch(i)
    \/ Join
    \/ Reflection
    \/ EvaluateResearch
    \/ FinalizeAnswer
    \/ RecursionError

Spec == Init /\ [][Next]_vars

(* -------------------------------------------------------- search_images *)

\* _IMAGE_RATE_INTERVAL = 2.0 seconds, in tenths of a second
IMAGE_RATE_INTERVAL == 20

\* random.uniform(0.1, 0.5): the ends of the range, in tenths of a second
JitterMin == 1
JitterMax == 5
Jitter == {JitterMin, JitterMax}

\* _duckduckgo_images: max_retries
max_retries == 3

\* a call of search_images that has not run yet
NewCall ==
    [pc |-> "called", wake |-> 0, started |-> -1, attempt |-> 0, requests |-> 0,
     slept |-> <<>>, last_outcome |-> "", primary |-> -1, fallback |-> FALSE,
     result |-> -1]

\* search_images up to its first await: the rate limit test, and either the
\* sleep or the time stamp and the start of the primary search
Enter(c) ==
    /\ c \in DOMAIN image_calls
    /\ image_calls[c].pc = "called"
    /\ LET time_since_last_call == clock - last_image_call
       IN  IF time_since_last_call < IMAGE_RATE_INTERVAL
           THEN /\ \E jitter \in Jitter :
                      image_calls' = [image_calls EXCEPT
                          ![c].pc = "sleeping",
                          ![c].wake = clock + IMAGE_RATE_INTERVAL
                                      - time_since_last_call + jitter]
                /\ UNCHANGED last_image_call
           ELSE /\ last_image_call' = clock
                /\ image_calls' = [image_calls EXCEPT
                          ![c].pc = "primary", ![c].started = clock]
    /\ UNCHANGED <<clock, decisions, graph, env_api_key, env_smithery_key, max_research_loops,
                   input, state, prev, pc, step, branches, completed, history,
                   update, edge_result, llm_called, http_called, error>>

\* search_images after its sleep: the time stamp and the start of the
\* primary search
WakeUp(c) ==
    /\ c \in DOMAIN image_calls
    /\ image_calls[c].pc = "sleeping"
    /\ clock >= image_calls[c].wake
    /\ last_image_call' = clock
    /\ image_calls' = [image_calls EXCEPT ![c].pc = "primary", ![c].started = clock]
    /\ UNCHANGED <<clock, decisions, graph, env_api_key, env_smithery_key, max_research_loops,
                   input, state, prev, pc, step, branches, completed, history,
                   update, edge_result, llm_called, http_called, error>>

\* a tenth of a second passes; a sleep that is over ends before the next one
Tick ==
    /\ clock < MaxClock
    /\ \E c \in DOMAIN image_calls : image_calls[c].pc \in {"called", "sleeping"}
    /\ \A c \in DOMAIN image_calls :
          image_calls[c].pc = "sleeping" => clock < image_calls[c].wake
    /\ clock' = clock + 1
    /\ UNCHANGED <<last_image_call, image_calls, decisions, graph, env_api_key, env_smithery_key,
                   max_research_loops, input, state, prev, pc, step, branches,
                   completed, history, update, edge_result, llm_called,
                   http_called, error>>

\* the variables of the graph run, at rest while search_images is looked at
GraphAtRest ==
    /\ decisions = <<>>
    /\ graph = "mcp"
    /\ env_api_key = TRUE
    /\ env_smithery_key = FALSE
    /\ max_research_loops = 1
    /\ input = [messages |-> <<"human">>]
    /\ state = InitialChannels(input)
    /\ prev = state
    /\ pc = "web_research"
    /\ step = 0
    /\ branches = <<>>
    /\ completed = <<>>
    /\ history = <<>>
    /\ update = <<>>
    /\ edge_result = "None"
    /\ llm_called = FALSE
    /\ http_called = FALSE
    /\ error = ""

\* the web_research branches of one fan-out call search_images on one event
\* loop; the last call before them was an interval ago or only just now
InitRate ==
    /\ GraphAtRest
    /\ clock = 0
    /\ last_image_call \in {-IMAGE_RATE_INTERVAL, 0}
    /\ \E n \in 1..MaxCalls : image_calls = [c \in 1..n |-> NewCall]

NextRate ==
    \/ \E c \in DOMAIN image_calls : Enter(c)
    \/ \E c \in DOMAIN image_calls : WakeUp(c)
    \/ Tick

SpecRate == InitRate /\ [][NextRate]_vars

\* random.uniform(0.5, 1.5): the ends of the range, in tenths of a second
BackoffJitterMin == 5
BackoffJitterMax == 15
BackoffJitter == {BackoffJitterMin, BackoffJitterMax}

\* what one request to the primary image provider comes back with
PrimaryOutcomes == {"images", "empty", "ratelimit", "error"}

\* what the request to the alternate image provider comes back with
AlternativeOutcomes == {"images", "empty", "error"}

\* the backoff that does not grow with the attempt
backoff_time_flat(attempt, jitter) == 10 + jitter

\* _duckduckgo_images: 2 ** attempt + random.uniform(0.5, 1.5)
backoff_time(attempt, jitter) == 10 * (2 ^ attempt) + jitter

\* the fallback tried whatever the primary search found
use_fallback_always(images) == TRUE

\* search_images: if not images
use_fallback(images) == images = 0

\* the call c after its primary search ended with n images
PrimaryEnded(call, n) ==
    [call EXCEPT !.primary = n,
                 !.pc = IF use_fallback(n) THEN "fallback" ELSE "returned",
                 !.result = IF use_fallback(n) THEN -1 ELSE n]

\* _duckduckgo_images cannot import duckduckgo_search: no request is made
DdgImportError(c) ==
    /\ c \in DOMAIN image_calls
    /\ image_calls[c].pc = "primary"
    /\ image_calls[c].requests = 0
    /\ image_calls' = [image_calls EXCEPT
            ![c] = PrimaryEnded([@ EXCEPT !.last_outcome = "import_error"], 0)]
    /\ UNCHANGED <<clock, last_image_call, decisions, graph, env_api_key, env_smithery_key,
                   max_research_loops, input, state, prev, pc, step, branches,
                   completed, history, update, edge_result, llm_called,
                   http_called, error>>

\* _duckduckgo_images: one pass of the retry loop
DdgAttempt(c) ==
    /\ c \in DOMAIN image_calls
    /\ image_calls[c].pc = "primary"
    /\ image_calls[c].attempt < max_retries
    /\ \E outcome \in PrimaryOutcomes, n \in 1..MaxImages, jitter \in BackoffJitter :
          LET call == [image_calls[c] EXCEPT !.requests = @ + 1,
                                             !.last_outcome = outcome]
              attempt == call.attempt
              last == attempt = max_retries - 1
              retry(time) ==
                  [call EXCEPT !.attempt = attempt + 1,
                               !.slept = Append(@, [why |-> outcome,
                                                    attempt |-> attempt,
                                                    time |-> time])]
          IN  image_calls' = [image_calls EXCEPT ![c] =
                CASE outcome = "images" -> PrimaryEnded(call, n)
                  [] outcome = "empty"
                       -> IF last THEN PrimaryEnded(retry(10 * (1 + attempt)), 0)
                          ELSE retry(10 * (1 + attempt))
                  [] outcome = "ratelimit"
                       -> IF last
                          THEN PrimaryEnded([call EXCEPT !.attempt = attempt + 1], 0)
                          ELSE retry(backoff_time(attempt, jitter))
                  [] OTHER -> PrimaryEnded(call, 0)]
    /\ UNCHANGED <<clock, last_image_call, decisions, graph, env_api_key, env_smithery_key,
                   max_research_loops, input, state, prev, pc, step, branches,
                   completed, history, update, edge_result, llm_called,
                   http_called, error>>

\* search_images: _alternative_image_search and the return
AlternativeSearch(c) ==
    /\ c \in DOMAIN image_calls
    /\ image_calls[c].pc = "fallback"
    /\ \E outcome \in AlternativeOutcomes, n \in 1..MaxImages :
          image_calls' = [image_calls EXCEPT
              ![c].fallback = TRUE,
              ![c].pc = "returned",
              ![c].result = IF outcome = "images" THEN n ELSE 0]
    /\ UNCHANGED <<clock, last_image_call, decisions, graph, env_api_key, env_smithery_key,
                   max_research_loops, input, state, prev, pc, step, branches,
                   completed, history, update, edge_result, llm_called,
                   http_called, error>>

\* one call of search_images, from its rate limit test to its return
InitImages ==
    /\ GraphAtRest
    /\ clock = 0
    /\ last_image_call \in {-IMAGE_RATE_INTERVAL, 0}
    /\ image_calls = <<NewCall>>

NextImages ==
    \/ Enter(1)
    \/ WakeUp(1)
    \/ Tick
    \/ DdgImportError(1)
    \/ DdgAttempt(1)
    \/ AlternativeSearch(1)

SpecImages == InitImages /\ [][NextImages]_vars

(* ----------------------------------------------------- web_research alone *)

\* a run entered at generate_query, in either graph, and followed through
\* the fan-out of web_research up to the join
InitSearch ==
    /\ graph \in {"mcp", "base"}
    /\ env_api_key = TRUE
    /\ env_smithery_key = FALSE
    /\ max_research_loops = 1
    /\ \E c \in InitialCounts :
          input = [messages |-> <<"human">>] @@ OptionalInput(c, "None", "None")
    /\ state = InitialChannels(input)
    /\ prev = state
    /\ pc = "generate_query"
    /\ step = 0
    /\ branches = <<>>
    /\ completed = <<>>
    /\ history = <<>>
    /\ update = <<>>
    /\ edge_result = "None"
    /\ llm_called = FALSE
    /\ http_called = FALSE
    /\ clock = 0
    /\ last_image_call = 0
    /\ image_calls = <<>>
    /\ decisions = <<>>
    /\ error = ""

NextSearch ==
    \/ GenerateQuery
    \/ \E i \in DOMAIN branches : WebResearch(i)
    \/ Join

SpecSearch == InitSearch /\ [][NextSearch]_vars

(* ----------------------------------------------------- route_to_tool alone *)

\* route_to_tool is called on a state, once or again
RouteCall ==
    /\ Len(decisions) < MaxRouteCalls
    /\ decisions' = Append(decisions, route_to_tool(Restrict(state, OverallState)))
    /\ UNCHANGED <<clock, last_image_call, image_calls, graph, env_api_key,
                   env_smithery_key, max_research_loops, input, state, prev, pc,
                   step, branches, completed, history, update, edge_result,
                   llm_called, http_called, error>>

\* between two calls everything but the state changes: the environment, the
\* configuration and the time
Elsewhere ==
    /\ env_api_key' \in BOOLEAN
    /\ env_smithery_key' \in BOOLEAN
    /\ max_research_loops' \in 1..MaxLoops
    /\ clock' \in {clock, clock + 1}
    /\ clock' <= MaxClock
    /\ <<env_api_key', env_smithery_key', max_research_loops', clock'>>
          # <<env_api_key, env_smithery_key, max_research_loops, clock>>
    /\ UNCHANGED <<decisions, last_image_call, image_calls, graph, input, state,
                   prev, pc, step, branches, completed, history, update,
                   edge_result, llm_called, http_called, error>>

\* the states route_to_tool is called on: those a run of the graph with the
\* router starts in
InitRoute == Init /\ graph = "mcp"

NextRoute == RouteCall \/ Elsewhere

SpecRoute == InitRoute /\ [][NextRoute]_vars

(* ------------------------------------------------- a run through the tool *)

\* a run that has been routed to execute_mcp_tool, as the edge from
\* route_to_tool to it is declared
InitToolRun ==
    /\ graph = "mcp"
    /\ env_api_key = TRUE
    /\ env_smithery_key \in BOOLEAN
    /\ max_research_loops = 2
    /\ input = [messages |-> <<"human">>,
                active_mcp_configurations |-> Dict([srv |-> Dict(<<>>)])]
               @@ OptionalInput(-1, "McpToolRequest", "srv")
    /\ state = InitialChannels(input)
    /\ prev = state
    /\ pc = "execute_mcp_tool"
    /\ step = 0
    /\ branches = <<>>
    /\ completed = <<>>
    /\ history = <<>>
    /\ update = <<>>
    /\ edge_result = "None"
    /\ llm_called = FALSE
    /\ http_called = FALSE
    /\ clock = 0
    /\ last_image_call = 0
    /\ image_calls = <<>>
    /\ decisions = <<>>
    /\ error = ""

\* the run is followed over the loop-back of evaluate_research, up to the
\* fan-out of generate_query or to its end
NextToolRun ==
    \/ ExecuteMcpTool
    \/ Reflection
    \/ EvaluateResearch
    \/ GenerateQuery
    \/ FinalizeAnswer

SpecToolRun == InitToolRun /\ [][NextToolRun]_vars

(* --------------------------------------------------------------- claims *)

\* the node n was the last to run
LastRan(n) == history # <<>> /\ Last(history) = n

\* the node n was the last to run and the run has not been aborted
JustRan(n) == LastRan(n) /\ error = ""

\* the request and a non-empty target server are both in the state
\* (None and the empty string count as absent, as Python truthiness has it)
BothPresent(s) ==
    /\ "current_mcp_tool_request" \in DOMAIN s
    /\ "target_mcp_server_qualified_name" \in DOMAIN s
    /\ s["target_mcp_server_qualified_name"] # ""

\* the number of web_research entries at the end of the history
TrailingWeb ==
    LET others == {i \in DOMAIN history : history[i] # "web_research"}
    IN  Len(history) - (IF others = {} THEN 0
                        ELSE CHOOSE i \in others : \A j \in others : j <= i)

\* the fan-out of the last generate_query has joined and reflection is next
Joined == pc = "reflection" /\ error = ""

\* the append-class fields the web_research branches write
ResearchFields == {"search_query", "web_research_result", "sources_gathered", "images"}

RECURSIVE BranchEntries(_, _)
\* what the branches 1..n returned for field f, concatenated by branch index
BranchEntries(f, n) ==
    IF n = 0 THEN <<>>
    ELSE BranchEntries(f, n - 1) \o Get(branches[n].update, f, <<>>)

\* the entries the last superstep added to field f
Added(f) == Len(state[f]) - Len(prev[f])

\* C1: once reflection has run max_research_loops times the run goes on to
\* finalize_answer: evaluate_research never loops back to generate_query
\* after that many reflections.
C1_FinalizeWithinMaxLoops ==
    (JustRan("evaluate_research")
        /\ Count(history, "reflection") >= max_research_loops)
    => pc = "finalize_answer"

\* C2: after the k-th run of reflection the merged research_loop_count is its
\* initial value plus k.
C2_LoopCountIsInitialPlusReflections ==
    Get(state, "research_loop_count", 0)
        = Get(input, "research_loop_count", 0) + Count(history, "reflection")

\* C3: when the incremented count reaches max_research_loops, reflection
\* returns is_sufficient=true and no follow-up queries without calling the
\* model, evaluate_research then routes to finalize_answer; with
\* max_research_loops=1 the run gets to finalize_answer after exactly one
\* generate_query and one reflection.
C3_BoundShortCircuits ==
    /\ (JustRan("reflection")
           /\ Get(prev, "research_loop_count", 0) + 1 >= max_research_loops)
       => /\ update = [is_sufficient |-> TRUE, follow_up_queries |-> <<>>]
          /\ ~llm_called
          /\ state.is_sufficient = TRUE
          /\ pc = "evaluate_research"
    /\ (JustRan("evaluate_research")
           /\ Get(prev, "research_loop_count", 0) + 1 >= max_research_loops)
       => pc = "finalize_answer"
    /\ (max_research_loops = 1 /\ pc \in {"finalize_answer", "END"}
           /\ Count(history, "reflection") > 0)
       => /\ Count(history, "generate_query") = 1
          /\ Count(history, "reflection") = 1

\* C3 witness: with max_research_loops=1 a run stands before finalize_answer
\* after one short-circuited reflection.
C3_Witness ==
    /\ max_research_loops = 1
    /\ JustRan("evaluate_research")
    /\ pc = "finalize_answer"
    /\ Count(history, "reflection") = 1
    /\ "knowledge_gap" \notin DOMAIN state

\* C4: route_to_tool returns execute_mcp_tool exactly when the request and
\* the target server are both present, generate_query otherwise, and nothing else.
C4_RouteIffBothPresent ==
    LastRan("route_to_tool")
    => /\ update \in {[next_node |-> "execute_mcp_tool"], [next_node |-> "generate_query"]}
       /\ (update.next_node = "execute_mcp_tool") <=> BothPresent(prev)

\* C4 witness: the router has decided generate_query with the target set and
\* no request.
C4_Witness ==
    /\ LastRan("route_to_tool")
    /\ "current_mcp_tool_request" \notin DOMAIN prev
    /\ Get(prev, "target_mcp_server_qualified_name", "") = "srv"
    /\ update.next_node = "generate_query"

\* C5: the next_node route_to_tool returns is what the conditional edge reads
\* and the node that runs next.
C5_EdgeReadsNextNode ==
    LastRan("route_to_tool")
    => /\ edge_result = update.next_node
       /\ pc = update.next_node

\* C6: with the request and the target both set, the router is followed by
\* execute_mcp_tool.
C6_ToolPassRunsTool ==
    (LastRan("route_to_tool") /\ BothPresent(input))
    => pc = "execute_mcp_tool"

\* C7: a query_list of N items spawns N web_research branches, the i-th
\* (0-based) with the i-th query and id i, and each runs once before the join.
C7_OneBranchPerQuery ==
    /\ pc = "web_research"
       => /\ Len(branches) = Len(state.query_list)
          /\ \A i \in DOMAIN branches :
                branches[i].arg =
                    [search_query |-> state.query_list[i], id |-> i - 1]
          /\ Len(completed) = Cardinality({i \in DOMAIN branches : branches[i].done})
          /\ \A i, j \in DOMAIN completed : completed[i] = completed[j] => i = j
    /\ Joined => TrailingWeb = Len(state.query_list)

\* C7 witness: two branches are spawned for a list of two queries.
C7_Witness ==
    /\ pc = "web_research"
    /\ state.query_list = <<"q1", "q2">>
    /\ Len(branches) = 2
    /\ branches[2].arg = [search_query |-> "q2", id |-> 1]

\* C8: reflection starts only when every branch of the fan-out is done, runs
\* once per fan-out, and sees one web_research_result entry per branch.
C8_JoinIsBarrier ==
    /\ (pc = "reflection" \/ JustRan("reflection"))
       => \A i \in DOMAIN branches : branches[i].done
    /\ Joined
       => /\ TrailingWeb = Len(branches)
          /\ Added("web_research_result") = Len(branches)
    /\ JustRan("reflection")
       => /\ Len(history) > 1
          /\ history[Len(history) - 1] = "web_research"
    /\ Count(history, "reflection") <= Count(history, "generate_query")

\* C8 witness: reflection has run once after a fan-out of two branches.
C8_Witness ==
    /\ JustRan("reflection")
    /\ Len(branches) = 2
    /\ Count(history, "web_research") = 2
    /\ Count(history, "reflection") = 1

\* C9: after the join every append-class field is its value before the
\* fan-out followed by the branches' entries in branch-index order, whatever
\* the order in which the branches finished.
C9_MergedInBranchOrder ==
    Joined
    => \A f \in ResearchFields :
          state[f] = prev[f] \o BranchEntries(f, Len(branches))

\* C9 witness: two branches have joined and the second query's entry follows
\* the first's.
C9_Witness ==
    /\ Joined
    /\ Len(branches) = 2
    /\ state.search_query = <<"q1", "q2">>
    /\ Len(state.sources_gathered) = 2
    /\ state.sources_gathered[1].query = "q2"

\* C10 (as claimed): after the join each append-class field has exactly N new
\* entries, or fewer only when some branch returned nothing for that field.
C10_ExactlyNEntries ==
    Joined
    => \A f \in ResearchFields :
          /\ Added(f) <= Len(branches)
          /\ Added(f) < Len(branches)
             => \E i \in DOMAIN branches : Get(branches[i].update, f, <<>>) = <<>>

\* C10 (amended): after the join search_query and web_research_result have
\* exactly N new entries each, and sources_gathered and images have one new
\* entry per search result and per image the branches returned.
C10_EntriesPerBranch ==
    Joined
    => /\ Added("search_query") = Len(branches)
       /\ Added("web_research_result") = Len(branches)
       /\ \A f \in {"sources_gathered", "images"} :
             Added(f) = Len(BranchEntries(f, Len(branches)))
       /\ Added("sources_gathered") <= Len(branches) * MaxResults

\* C10 witness: one branch has joined with two sources.
C10_Witness ==
    /\ Joined
    /\ Len(branches) = 1
    /\ Added("sources_gathered") = 2
    /\ Added("web_research_result") = 1

\* the branches whose search failed
FailedBranches == {i \in DOMAIN branches : branches[i].search_failed}

C12_EmptyListGoesToReflection ==
    (JustRan("generate_query") /\ state.query_list = <<>>)
    => /\ branches = <<>>
       /\ pc = "reflection"

\* execute_mcp_tool was the last node to run, prev being the state it ran on
ToolRan == LastRan("execute_mcp_tool")

\* what is missing for the tool call in the state s
RequestMissing(s) == "current_mcp_tool_request" \notin DOMAIN s
TargetMissing(s) == Get(s, "target_mcp_server_qualified_name", "") = ""
ConfigEntryMissing(s) ==
    /\ ~TargetMissing(s)
    /\ s["target_mcp_server_qualified_name"]
          \notin DOMAIN Get(s, "active_mcp_configurations", Dict(<<>>)).items

\* the configuration of the target server in the state s
ConfigEntry(s) ==
    Get(s, "active_mcp_configurations", Dict(<<>>)).items[
        s["target_mcp_server_qualified_name"]]

\* C13 (as claimed): execute_mcp_tool never raises, whatever the request,
\* the target, the configuration and the outcome of the HTTP call: it
\* returns an update whose mcp_tool_response has status "error" or "success".
C13_ToolNeverRaises ==
    ToolRan
    => /\ error = ""
       /\ "mcp_tool_response" \in DOMAIN state
       /\ state.mcp_tool_response.status \in {"error", "success"}

CompleteToolInput ==
    InitialChannels(
        [messages |-> <<"human">>,
         active_mcp_configurations |-> Dict([srv |-> Dict(<<>>)])]
        @@ OptionalInput(-1, "McpToolRequest", "srv"))

\* the complete state with one thing taken away
Without(what) ==
    CASE what = "request"
           -> [k \in DOMAIN CompleteToolInput \ {"current_mcp_tool_request"} |->
                  CompleteToolInput[k]]
      [] what = "target"
           -> [k \in DOMAIN CompleteToolInput \ {"target_mcp_server_qualified_name"} |->
                  CompleteToolInput[k]]
      [] OTHER
           -> [CompleteToolInput EXCEPT !.active_mcp_configurations = Dict(<<>>)]

\* the mcp_tool_response the node returns when only `what` is missing
ErrorFor(what) ==
    execute_mcp_tool(Without(what), "200_json_object").update.mcp_tool_response

\* the one thing that is missing in the state the tool ran on ("": not one thing)
OnlyMissing ==
    CASE RequestMissing(prev) /\ ~TargetMissing(prev) /\ ~ConfigEntryMissing(prev)
           -> "request"
      [] ~RequestMissing(prev) /\ TargetMissing(prev) -> "target"
      [] ~RequestMissing(prev) /\ ConfigEntryMissing(prev) -> "config"
      [] OTHER -> ""

\* C15 (as claimed): a missing request, a missing target and a missing
\* configuration are reported by three pairwise different error values, so
\* the value the node returned for one of them is not the value of another.
C15_ThreeDistinctErrors ==
    (ToolRan /\ env_smithery_key /\ OnlyMissing # "")
    => /\ state.mcp_tool_response = ErrorFor(OnlyMissing)
       /\ \A other \in {"request", "target", "config"} \ {OnlyMissing} :
             state.mcp_tool_response # ErrorFor(other)

\* C15 (amended): a missing request and a missing target are reported by
\* one and the same error value, and a missing configuration by a different
\* one.
C15_TwoDistinctErrors ==
    (ToolRan /\ env_smithery_key /\ OnlyMissing # "")
    => /\ state.mcp_tool_response = ErrorFor(OnlyMissing)
       /\ state.mcp_tool_response.status = "error"
       /\ ErrorFor("request") = ErrorFor("target")
       /\ ErrorFor("config") # ErrorFor("request")
       /\ OnlyMissing = "config" <=> state.mcp_tool_response = ErrorFor("config")

\* C15 witness: the node ran without a configuration for its target and
\* reported just that.
C15_Witness ==
    /\ ToolRan
    /\ env_smithery_key
    /\ OnlyMissing = "config"
    /\ state.mcp_tool_response.data.error
          = "Active configuration for {server_qname} not found."

\* C16 (as claimed): once execute_mcp_tool has made the call and its update
\* is merged, web_research_result is its value before the node followed by
\* exactly one new entry.
C16_OneEntryAppended ==
    (ToolRan /\ http_called)
    => /\ Len(state.web_research_result) = Len(prev.web_research_result) + 1
       /\ SubSeq(state.web_research_result, 1, Len(prev.web_research_result))
             = prev.web_research_result
       /\ Last(state.web_research_result) = mcp_output_string(state.mcp_tool_response)

\* C17 (as claimed): a missing key, of the tool proxy or of the model
\* provider, never halts the run: no node ends the run with the exception
\* raised for the missing key.
C17_MissingKeyNeverHalts ==
    (~env_api_key \/ ~env_smithery_key)
    => ~(pc = "error" /\ error = "ValueError")

\* C18: after evaluate_research the next node is finalize_answer when
\* is_sufficient is true and generate_query otherwise; evaluate_research
\* hands is_sufficient on unchanged and, when it is false, sets query_list
\* to follow_up_queries.
C18_EvaluateRoutesOnSufficiency ==
    JustRan("evaluate_research")
    => /\ prev.is_sufficient => pc = "finalize_answer"
       /\ ~prev.is_sufficient => pc = "generate_query"
       /\ state.is_sufficient = prev.is_sufficient
       /\ ~prev.is_sufficient => state.query_list = prev.follow_up_queries

\* C18 witness: reflection found the research insufficient, and
\* evaluate_research loops back with the follow-up query as query_list.
C18_Witness ==
    /\ JustRan("evaluate_research")
    /\ ~prev.is_sufficient
    /\ pc = "generate_query"
    /\ state.query_list = <<"f1">>

\* the queries of the web_research branches, by branch index
BranchQueries == [i \in DOMAIN branches |-> branches[i].arg.search_query]

\* C19 (as claimed): on a loop-back the branches spawned are one per
\* follow-up query, in the same order: their queries are the query_list
\* evaluate_research set from follow_up_queries (prev is the state
\* generate_query ran on).
C19_BranchesAreFollowUps ==
    (pc = "web_research" /\ Count(history, "reflection") >= 1)
    => BranchQueries = prev.query_list

\* C20 (as claimed): a run that has ended ran finalize_answer exactly once,
\* as its last node, and finalize_answer appended exactly one message to
\* messages and changed no other field.
C20_FinalizeOnceAndLast ==
    pc = "END"
    => /\ Count(history, "finalize_answer") = 1
       /\ Last(history) = "finalize_answer"
       /\ Len(state.messages) = Len(prev.messages) + 1
       /\ SubSeq(state.messages, 1, Len(prev.messages)) = prev.messages
       /\ DOMAIN state = DOMAIN prev
       /\ \A k \in DOMAIN state \ {"messages"} : state[k] = prev[k]

\* the list a is the beginning of the list b
IsPrefix(a, b) == Len(a) <= Len(b) /\ SubSeq(b, 1, Len(a)) = a

\* C21: the append-class fields only grow: in every step the old value of
\* search_query, web_research_result, sources_gathered and images is a
\* prefix of the new one, so the value in a state is a prefix of the value
\* in every later state.
C21_AppendFieldsOnlyGrow ==
    [][\A f \in ResearchFields : IsPrefix(state[f], state'[f])]_vars

\* C21 witness: the second fan-out of a run has joined and added its
\* entries behind those of the first.
C21_Witness ==
    /\ Joined
    /\ Count(history, "reflection") >= 1
    /\ prev.search_query # <<>>
    /\ Len(state.search_query) > Len(prev.search_query)
    /\ IsPrefix(prev.search_query, state.search_query)

\* C22 (as claimed): in every reachable state current_mcp_tool_request and
\* target_mcp_server_qualified_name are both present or both absent.
C22_RequestAndTargetTogether ==
    ("current_mcp_tool_request" \in DOMAIN state)
    <=> ("target_mcp_server_qualified_name" \in DOMAIN state)

\* the calls of search_images whose primary search has started
Started == {c \in DOMAIN image_calls : image_calls[c].started >= 0}

\* C23 (as claimed): the branches of a fan-out share no mutable variable:
\* no step of a branch changes a variable that another branch reads, so the
\* time stamp search_images tests is never written.
C23_BranchesShareNothing ==
    [][last_image_call' = last_image_call]_vars

\* C24 (as claimed): the primary searches of any two calls of search_images
\* start at least _IMAGE_RATE_INTERVAL apart, also when the calls are made
\* by branches that run at the same time.
C24_StartsAnIntervalApart ==
    \A c, d \in Started :
        c # d
        => \/ image_calls[c].started - image_calls[d].started >= IMAGE_RATE_INTERVAL
           \/ image_calls[d].started - image_calls[c].started >= IMAGE_RATE_INTERVAL

\* the backoffs the call slept after a rate-limit-class error, in order
RateLimitBackoffs(call) == SelectSeq(call.slept, LAMBDA s : s.why = "ratelimit")

\* C25: _duckduckgo_images makes at most 3 requests, whatever the provider
\* answers, and its loop is over after the third; a rate-limit-class error
\* before the last attempt is followed by a backoff, and a later backoff is
\* never shorter than an earlier one; any other error ends the retries at
\* once with no image.
C25_BoundedRetries ==
    \A c \in DOMAIN image_calls :
        LET call == image_calls[c]
            backoffs == RateLimitBackoffs(call)
        IN  /\ call.requests <= 3
            /\ call.attempt <= 3
            /\ call.attempt = 3 => call.pc # "primary"
            /\ call.requests = 3 => call.pc # "primary"
            /\ (call.last_outcome = "ratelimit" /\ call.pc = "primary")
               => /\ call.slept # <<>>
                  /\ Last(call.slept).why = "ratelimit"
                  /\ Last(call.slept).attempt = call.attempt - 1
                  /\ Last(call.slept).time >= 10 * (2 ^ (call.attempt - 1))
            /\ \A i, j \in DOMAIN backoffs :
                  backoffs[i].attempt < backoffs[j].attempt
                  => backoffs[i].time <= backoffs[j].time
            /\ call.last_outcome = "error"
               => /\ call.pc # "primary"
                  /\ call.primary = 0

\* C25 witness: the provider answered with a rate-limit error three times;
\* the call slept two backoffs and gave up after the third request.
C25_Witness ==
    \E c \in DOMAIN image_calls :
        /\ image_calls[c].requests = 3
        /\ image_calls[c].last_outcome = "ratelimit"
        /\ Len(RateLimitBackoffs(image_calls[c])) = 2
        /\ image_calls[c].primary = 0

\* C26: search_images asks the alternate provider exactly when the primary
\* search ended without an image, returns the primary images without asking
\* it otherwise, and returns a list, empty or not, for every outcome of the
\* two providers.
C26_FallbackIffPrimaryEmpty ==
    \A c \in DOMAIN image_calls :
        LET call == image_calls[c]
        IN  /\ call.fallback => call.primary = 0
            /\ call.pc = "fallback" => call.primary = 0
            /\ call.pc = "returned"
               => /\ call.fallback <=> call.primary = 0
                  /\ ~call.fallback => call.result = call.primary /\ call.result > 0
                  /\ call.result >= 0
            /\ error = ""

\* C26 witness: the primary search ended without an image and the alternate
\* provider supplied one.
C26_Witness ==
    \E c \in DOMAIN image_calls :
        /\ image_calls[c].pc = "returned"
        /\ image_calls[c].primary = 0
        /\ image_calls[c].fallback
        /\ image_calls[c].result > 0

\* the web_research branches that have returned (a branch raises nothing
\* but the UnboundLocalError of a failed model step, never an exception of
\* the search)
DoneBranches == {i \in DOMAIN branches : branches[i].done}

C28_RoutingIsDeterministic ==
    \A i, j \in DOMAIN decisions : decisions[i] = decisions[j]

\* C28 witness: route_to_tool sent a state to the tool twice, with the
\* proxy key set at one call and gone at the other.
C28_Witness ==
    /\ Len(decisions) = 2
    /\ decisions[1] = [next_node |-> "execute_mcp_tool"]
    /\ decisions[2] = [next_node |-> "execute_mcp_tool"]
    /\ ~env_smithery_key

\* the part of the last update that goes to overwrite channels
OverwritePart(u) == Restrict(u, Channels \ AppendChannels)

C30_FollowUpsAreOverwritten ==
    JustRan("reflection")
    => state.follow_up_queries = update.follow_up_queries

\* the request, the target and the target's configuration entry are all in
\* the state the tool ran on, and the proxy API key is set
AllPresent ==
    /\ env_smithery_key
    /\ ~RequestMissing(prev)
    /\ ~TargetMissing(prev)
    /\ ~ConfigEntryMissing(prev)

\* C31 (as claimed): when the API key, the request, the target and the
\* target's configuration entry are all present, an execution of
\* execute_mcp_tool makes the external HTTP call (the one requests.post of
\* its try block, which no loop repeats) and returns.
C31_ExactlyOneCall ==
    (ToolRan /\ AllPresent) => (http_called /\ error = "")

\* the outcomes of the HTTP call that are a 2xx response with a JSON body
Json2xx == {"200_json_object", "200_json_array"}

\* C32 (as claimed): after a call, mcp_tool_response.status is "success"
\* exactly when the call came back with a 2xx response and a JSON body, and
\* "error" otherwise, the entry added to web_research_result then being the
\* error block.
C32_SuccessIffJsonBody ==
    (ToolRan /\ http_called)
    => \A outcome \in HttpOutcomes :
          state.mcp_tool_response = mcp_response(outcome)
          => /\ state.mcp_tool_response.status = "success" <=> outcome \in Json2xx
             /\ outcome \notin Json2xx
                => /\ state.mcp_tool_response.status = "error"
                   /\ Last(state.web_research_result).kind = "mcp_error"

\* C33: in a web_research branch the text search and the image search are
\* independent: when the image search failed or found nothing, the branch's
\* update still carries every source of the text search, and when the text
\* search failed or found nothing, it still carries every image found.
C33_SearchesIndependent ==
    \A i \in DoneBranches :
        /\ (branches[i].images_failed \/ branches[i].images_found = 0)
           => Len(branches[i].update.sources_gathered) = branches[i].results_found
        /\ (branches[i].search_failed \/ branches[i].results_found = 0)
           => Len(Get(branches[i].update, "images", <<>>)) = branches[i].images_found

\* C33 witness: one branch kept its sources although its image search
\* failed, and another kept its image although its text search failed.
C33_Witness ==
    \E i, j \in DoneBranches :
        /\ branches[i].images_failed
        /\ branches[i].results_found > 0
        /\ Len(branches[i].update.sources_gathered) = branches[i].results_found
        /\ branches[j].search_failed
        /\ branches[j].images_found > 0
        /\ Len(branches[j].update.images) = branches[j].images_found

\* C34 (as claimed): when the model call that summarizes the search results
\* fails, the branch does not raise, in either graph: it returns the
\* formatted search results as its web_research_result, with the sources of
\* the search.
C34_LlmFailureFallsBack ==
    /\ error = ""
    /\ \A i \in DoneBranches :
          branches[i].llm_failed
          => /\ branches[i].update.web_research_result[1].kind = "formatted"
             /\ Len(branches[i].update.sources_gathered) = branches[i].results_found

\* C35: a branch whose text search and image search both returned nothing
\* returns empty sources_gathered, empty images and the "No search results
\* found" diagnostic without invoking the model; the model is invoked only
\* when at least one of the two searches returned a result.
C35_NoModelCallForEmptySearch ==
    \A i \in DoneBranches :
        /\ (branches[i].results_found = 0 /\ branches[i].images_found = 0)
           => /\ branches[i].update.sources_gathered = <<>>
              /\ Get(branches[i].update, "images", <<>>) = <<>>
              /\ branches[i].update.web_research_result[1].kind = "no_results"
              /\ ~branches[i].llm_invoked
        /\ branches[i].llm_invoked
           => (branches[i].results_found > 0 \/ branches[i].images_found > 0)

\* C35 witness: both searches of one branch failed and it returned the
\* diagnostic without a model call, while another branch with results
\* invoked the model.
C35_Witness ==
    \E i, j \in DoneBranches :
        /\ branches[i].search_failed
        /\ branches[i].images_failed
        /\ branches[i].update.web_research_result[1].kind = "no_results"
        /\ ~branches[i].llm_invoked
        /\ branches[j].results_found > 0
        /\ branches[j].llm_invoked

\* C36: execute_mcp_tool runs at most once per run: no step after the
\* start leads to the router or to the tool node, and the loop-back of
\* evaluate_research goes to generate_query, also when the tool request is
\* still in the state.
C36_ToolRunsAtMostOnce ==
    /\ Count(history, "execute_mcp_tool") <= 1
    /\ history # <<>> => pc \notin {"route_to_tool", "execute_mcp_tool"}
    /\ (JustRan("evaluate_research") /\ ~state.is_sufficient)
       => pc = "generate_query"

\* C36 witness: the tool ran, the research was found insufficient and the
\* run looped back to generate_query, which ran with the tool request still
\* in the state.
C36_Witness ==
    /\ history = <<"execute_mcp_tool", "reflection", "evaluate_research",
                   "generate_query">>
    /\ "current_mcp_tool_request" \in DOMAIN state
    /\ state.mcp_tool_response.status = "success"
    /\ pc = "web_research"

\* execute_mcp_tool returned one of its early errors: it ran, did not raise
\* and made no call
EarlyError == ToolRan /\ error = "" /\ ~http_called

\* C37 (as claimed): after an early error of execute_mcp_tool the merged
\* state differs from the state before the node in mcp_tool_response only:
\* messages, search_query, web_research_result, sources_gathered, images and
\* every other channel are unchanged.
C37_EarlyErrorChangesOnlyResponse ==
    EarlyError
    => /\ DOMAIN state = DOMAIN prev \cup {"mcp_tool_response"}
       /\ \A k \in DOMAIN prev \ {"mcp_tool_response"} : state[k] = prev[k]

\* the keys a web_research branch may write
BranchKeys == {"sources_gathered", "search_query", "web_research_result", "images"}

\* C38: the update of a web_research branch contains only sources_gathered,
\* search_query, web_research_result and images, with exactly one
\* search_query entry and exactly one web_research_result entry, and the
\* join of the branches leaves every other field of the state (the
\* overwrite fields among them) as it was.
C38_BranchWritesOnlyResearchFields ==
    /\ \A i \in DoneBranches :
          /\ DOMAIN branches[i].update \subseteq BranchKeys
          /\ {"sources_gathered", "search_query", "web_research_result"}
                \subseteq DOMAIN branches[i].update
          /\ Len(branches[i].update.search_query) = 1
          /\ Len(branches[i].update.web_research_result) = 1
    /\ Joined
       => /\ DOMAIN state = DOMAIN prev
          /\ \A k \in DOMAIN prev \ BranchKeys : state[k] = prev[k]

\* C38 witness: the branches of the router's graph have been joined, one of
\* them brought an image, and research_loop_count and query_list are in the
\* state as they were before.
C38_Witness ==
    /\ Joined
    /\ graph = "mcp"
    /\ Len(state.images) > 0
    /\ Len(state.search_query) = Len(branches)
    /\ "research_loop_count" \in DOMAIN state
    /\ state.research_loop_count = prev.research_loop_count
    /\ state.query_list = prev.query_list

====
